---- MODULE Spec2Model ----
(***************************************************************************)
(* Model of the QGIS plugin generator desktop application, in its two      *)
(* variants: main_app.py ("base") and main_app_mejorado.py ("mejorado").   *)
(* The state is the main window (QGISPluginGenerator), the worker threads  *)
(* (PluginGenerator, AudioRecorder), the queue of signals posted by the    *)
(* workers to the UI thread, and the part of the file system that          *)
(* create_plugin_package touches.                                          *)
(***************************************************************************)
EXTENDS Integers, Sequences, FiniteSets, TLC

(***************************************************************************)
(* Bounds of the model.                                                    *)
(***************************************************************************)
\* worker threads (PluginGenerator, AudioRecorder) the window may start in
\* one behaviour
MaxThreads == 2
\* values datetime.now() may take, at the resolution of one second
MaxStamp == 2
\* calls of create_plugin_package in one behaviour of SpecPackage
MaxCalls == 2
\* chunks of audio one recording of SpecRecorder may read
MaxChunks == 2

\* len(user_request) < 20 asks the 'description too short' question
MinRequestLen == 20

VARIABLES
    \* ---- environment, fixed by the initial state
    variant,          \* "base" (main_app.py) or "mejorado" (main_app_mejorado.py)
    audio_libs,       \* import pyaudio / import whisper succeed
    crewai_libs,      \* import crewai succeeds
    linesep,          \* os.linesep, what a text-mode write turns "\n" into
    \* ---- main window
    text_input,       \* QTextEdit content
    record_enabled, generate_enabled, save_enabled, progress_visible,
    record_text,      \* label of the record button
    output_console,   \* the line appended last to the console
    status_bar,       \* statusBar() message (mejorado)
    message_box,      \* the dialog shown by the handler that ran last
    generated_plugins,\* history list (mejorado)
    audio_recorder,   \* self.audio_recorder: a recorder id, 0 for None
    plugin_generator, \* self.plugin_generator: a generator id, 0 for None
    closed,           \* the window accepted a close event: the application quit
    \* ---- worker threads and the UI thread's event queue
    gens,             \* PluginGenerator objects alive, by id
    gen_count,        \* PluginGenerator objects created so far
    recs,             \* AudioRecorder objects alive, by id
    rec_count,        \* AudioRecorder objects created so far
    events,           \* queued signals, in the order they were emitted
    \* ---- file system
    fs,
    \* ---- a single call of create_plugin_package (specification SpecPackage)
    pkg_call, pkg_ret,
    \* ---- a single AudioRecorder.run in detail (specification SpecRecorder)
    rec_run

envVars == <<variant, audio_libs, crewai_libs, linesep>>
buttonVars == <<record_enabled, generate_enabled, save_enabled, progress_visible,
                record_text>>
uiVars == <<text_input, buttonVars, output_console, status_bar, message_box,
            generated_plugins, audio_recorder, plugin_generator>>
genVars == <<gens, gen_count>>
recVars == <<recs, rec_count>>
pkgVars == <<pkg_call, pkg_ret>>
vars == <<envVars, uiVars, closed, genVars, recVars, events, fs, pkgVars, rec_run>>

(***************************************************************************)
(* Python values.                                                          *)
(***************************************************************************)
PyNone == [type |-> "NoneType"]
PyStr(s) == [type |-> "str", s |-> s]
\* truth value of an optional path: None and '' are false
Truthy(v) == v.type = "str" /\ v.s # <<>>

(***************************************************************************)
(* Texts are sequences of characters.  " ", "\n", "\r" and "\t" are        *)
(* whitespace; "<surrogate>" stands for a character UTF-8 cannot encode.   *)
(***************************************************************************)
Whitespace == {" ", "\n", "\r", "\t"}

Repeat(c, n) == [i \in 1..n |-> c]

RECURSIVE lstrip(_)
lstrip(s) ==
    IF s # <<>> /\ Head(s) \in Whitespace THEN lstrip(Tail(s)) ELSE s

RECURSIVE rstrip(_)
rstrip(s) ==
    IF s # <<>> /\ s[Len(s)] \in Whitespace
    THEN rstrip(SubSeq(s, 1, Len(s) - 1)) ELSE s

\* strip with the bug of returning the text as it is
strip_none(s) == s

\* str.strip()
strip(s) == rstrip(lstrip(s))

\* what the user may type into the input field
TypedTexts ==
    { <<" ", "\n">>,
      <<" ">> \o Repeat("a", MinRequestLen - 1) \o <<"\n">>,
      Repeat("a", MinRequestLen) }

\* what Whisper may return as result["text"]
Transcripts ==
    { <<" ">>,
      <<" ", "v", " ", "v">> }

\* raw texts the language model may answer with when it plays agent
ModelTexts(agent) == { <<agent, ":", "\n", "x">> }

Timestamps == 1..MaxStamp

(***************************************************************************)
(* File system.  A path is a sequence of names.  fs.dirs is the set of     *)
(* directories, fs.files maps the path of a regular file to its content    *)
(* and fs.zips maps the path of an archive to its entries, each with the   *)
(* name and the data it was stored under.                                  *)
(***************************************************************************)
EmptyFs == [dirs |-> {}, files |-> <<>>, zips |-> <<>>]

\* os.path.join(a, b)
join(a, b) == a \o <<b>>

IsPrefix(p, q) == Len(p) <= Len(q) /\ SubSeq(q, 1, Len(p)) = p

\* relpath with the bug of naming an entry by its file name alone
relpath_basename(path, start) == <<path[Len(path)]>>

\* os.path.relpath(path, start), for a path below start
relpath(path, start) == SubSeq(path, Len(start) + 1, Len(path))

\* os.getcwd()
getcwd == <<"cwd">>

\* tempfile.mkdtemp(): a new directory under the system's temporary
\* directory, named unlike any that exists
mkdtemp(f) ==
    LET n == CHOOSE k \in 1..(Cardinality(f.dirs) + 1) :
                 <<"tmp", "tmp" \o ToString(k)>> \notin f.dirs
    IN <<"tmp", "tmp" \o ToString(n)>>

\* datetime.now().strftime("%Y%m%d_%H%M%S")
strftime(now) == ToString(now)

Put(f, k, v) == [x \in DOMAIN f \cup {k} |-> IF x = k THEN v ELSE f[x]]

\* the "\n" of a text written in text mode become os.linesep
RECURSIVE translate_newlines(_, _)
translate_newlines(text, sep) ==
    IF text = <<>> THEN <<>>
    ELSE (IF Head(text) = "\n" THEN sep ELSE <<Head(text)>>)
         \o translate_newlines(Tail(text), sep)

\* the text can be encoded as UTF-8
Encodable(text) == \A i \in 1..Len(text) : text[i] # "<surrogate>"

\* the files os.walk(top) yields, as a sequence
RECURSIVE SeqOf(_)
SeqOf(S) ==
    IF S = {} THEN <<>>
    ELSE LET x == CHOOSE y \in S : TRUE IN <<x>> \o SeqOf(S \ {x})

walk_files(f, top) == SeqOf({p \in DOMAIN f.files : IsPrefix(top, p)})

\* shutil.rmtree(top)
rmtree(f, top) ==
    [f EXCEPT !.dirs = {d \in f.dirs : ~IsPrefix(top, d)},
              !.files = [p \in {q \in DOMAIN f.files : ~IsPrefix(top, q)}
                            |-> f.files[p]]]

\* the steps of create_plugin_package that the environment may fail
PackageFaults == {"none", "mkdtemp", "makedirs", "open", "zip_open",
                  "zip_write", "rmtree"}
\* those among them a generation run is followed through
RunFaults == {"none", "makedirs", "zip_write", "rmtree"}

(***************************************************************************)
(* PluginGenerator.create_plugin_package(result_text), with the system     *)
(* time now and the step fault (if any) that raises.  The result is the    *)
(* returned value, the file system it leaves and the temporary directory   *)
(* it created (<<>> when none was).                                        *)
(***************************************************************************)
create_plugin_package(f, result_text, now, sep, fault) ==
    LET timestamp == strftime(now)
        plugin_name == "qgis_plugin_" \o timestamp
        temp_dir == mkdtemp(f)
        plugin_dir == join(temp_dir, plugin_name)
        f1 == [f EXCEPT !.dirs = @ \cup {temp_dir}]
        f2 == [f1 EXCEPT !.dirs = @ \cup {plugin_dir}]
        file == join(plugin_dir, "resultado.txt")
        \* open(..., "w") creates the file empty; f.write fills it
        f3e == [f2 EXCEPT !.files = Put(@, file, <<>>)]
        f3 == [f2 EXCEPT !.files = Put(@, file, translate_newlines(result_text, sep))]
        zip_path == join(getcwd, plugin_name \o ".zip")
        \* ZipFile(zip_path, 'w') truncates; leaving the with block closes it
        f4e == [f3 EXCEPT !.zips = Put(@, zip_path, <<>>)]
        walked == walk_files(f3, plugin_dir)
        entries == [i \in 1..Len(walked) |->
                       [arcname |-> relpath(walked[i], temp_dir),
                        data |-> f3.files[walked[i]]]]
        f4 == [f3 EXCEPT !.zips = Put(@, zip_path, entries)]
        f5 == rmtree(f4, temp_dir)
        failed(g, t) == [ret |-> PyNone, fs |-> g, temp_dir |-> t]
    IN  IF fault = "mkdtemp" THEN failed(f, <<>>)
        ELSE IF fault = "makedirs" THEN failed(f1, temp_dir)
        ELSE IF fault = "open" THEN failed(f2, temp_dir)
        ELSE IF ~Encodable(result_text) THEN failed(f3e, temp_dir)
        ELSE IF fault = "zip_open" THEN failed(f3, temp_dir)
        ELSE IF fault = "zip_write" THEN failed(f4e, temp_dir)
        ELSE IF fault = "rmtree" THEN failed(f4, temp_dir)
        ELSE [ret |-> PyStr(zip_path), fs |-> f5, temp_dir |-> temp_dir]

(***************************************************************************)
(* The three tasks of the crew.  A task names its agent, what its prompt   *)
(* template interpolates and the tasks whose outputs are its context.      *)
(***************************************************************************)
planning_task(variant_, user_request, config) ==
    [name |-> "planning_task", agent |-> "planner_agent",
     inputs |-> IF variant_ = "mejorado"
                THEN <<PyStr(user_request), PyStr(<<config>>)>>
                ELSE <<PyStr(user_request)>>,
     context |-> <<>>]

coding_task ==
    [name |-> "coding_task", agent |-> "coder_agent",
     inputs |-> <<>>,
     context |-> <<"planning_task">>]

\* review_task with the bug of leaving the plan out of its context
review_task_coder_only ==
    [name |-> "review_task", agent |-> "reviewer_agent",
     inputs |-> <<>>,
     context |-> <<"coding_task">>]

review_task ==
    [name |-> "review_task", agent |-> "reviewer_agent",
     inputs |-> <<>>,
     context |-> <<"planning_task", "coding_task">>]

\* Crew(agents=[...], tasks=[planning_task, coding_task, review_task])
crew_tasks(variant_, user_request, config) ==
    <<planning_task(variant_, user_request, config), coding_task, review_task>>

\* the output of the task called name among the outputs produced so far
OutputOf(outputs, name) ==
    LET i == CHOOSE k \in 1..Len(outputs) : outputs[k].task = name
    IN outputs[i]

\* A crew runs its tasks in the order of the list (the sequential process,
\* the default).  One task: the agent is prompted with the task's inputs
\* and with the outputs of the tasks of its context, and answers raw.
execute_task(task, outputs, raw) ==
    [task |-> task.name, agent |-> task.agent, inputs |-> task.inputs,
     context |-> [i \in 1..Len(task.context) |-> OutputOf(outputs, task.context[i])],
     raw |-> raw]

\* crew_output with the bug of returning the output of the first task
crew_output_first(outputs) ==
    [raw |-> outputs[1].raw, tasks_output |-> outputs]

\* crew.kickoff() returns the output of the last task
crew_output(outputs) ==
    [raw |-> outputs[Len(outputs)].raw, tasks_output |-> outputs]

\* str(result)
str(result) == result.raw

(***************************************************************************)
(* Environment.                                                            *)
(***************************************************************************)
\* main_app_mejorado.py guards its optional imports; main_app.py does not
AUDIO_AVAILABLE == audio_libs
CREWAI_AVAILABLE == crewai_libs

\* main() reaches app.exec_(): main_app.py stops at the first failing import
Started == variant = "mejorado" \/ (audio_libs /\ crewai_libs)

\* the event loop of app.exec_() runs: the application started and its
\* window has not been closed
Alive == Started /\ ~closed

NoDialog == [kind |-> "none", text |-> <<>>]
Dialog(kind, text) == [kind |-> kind, text |-> text]

\* the window after QGISPluginGenerator.__init__, no worker, nothing on disk
InitWindow ==
    /\ text_input = <<>>
    /\ record_enabled = (Started /\ (variant = "base" \/ AUDIO_AVAILABLE))
    /\ generate_enabled = (Started /\ (variant = "base" \/ CREWAI_AVAILABLE))
    /\ save_enabled = FALSE
    /\ progress_visible = FALSE
    /\ record_text = "Grabar Voz"
    /\ output_console = "welcome"
    /\ status_bar = IF variant = "mejorado" THEN "Listo para generar plugins de QGIS" ELSE ""
    /\ message_box = NoDialog
    /\ generated_plugins = <<>>
    /\ audio_recorder = 0
    /\ plugin_generator = 0
    /\ closed = FALSE
    /\ gens = <<>>
    /\ gen_count = 0
    /\ recs = <<>>
    /\ rec_count = 0
    /\ events = <<>>
    /\ fs = EmptyFs
    /\ pkg_call = [n |-> 0]
    /\ pkg_ret = [ret |-> PyNone, temp_dir |-> <<>>]

Init ==
    /\ variant \in {"base", "mejorado"}
    /\ audio_libs \in BOOLEAN
    /\ crewai_libs \in BOOLEAN
    /\ linesep = <<"\n">>
    /\ InitWindow
    /\ rec_run = [pc |-> "idle"]

(***************************************************************************)
(* Signals.  A signal emitted by a worker thread is queued for the UI      *)
(* thread, which runs the connected slot when it takes it from the queue.  *)
(***************************************************************************)
Signal(cls, sig, from, args) ==
    [cls |-> cls, sig |-> sig, from |-> from, args |-> args]

\* What a method of the window displays: the line it appends last to the
\* console ("" when it appends none), the message it leaves on the status
\* bar (only main_app_mejorado.py has one) and the dialog it opens.
display(line, status, dialog) ==
    /\ output_console' = line
    /\ status_bar' = IF variant = "mejorado" THEN status ELSE ""
    /\ message_box' = dialog

(***************************************************************************)
(* PluginGenerator: the worker thread of one generation.                   *)
(***************************************************************************)
\* tasks_output: the outputs of the stages executed so far; kickoffs: the
\* calls of crew.kickoff(); emitted: the signals emitted, each <<name, args>>;
\* raised: the messages of the exceptions that reached run's handler
NewGenerator(user_request, config) ==
    [pc |-> "init", user_request |-> user_request, plugin_config |-> config,
     crew |-> <<>>, tasks_output |-> <<>>, result |-> PyNone,
     zip_path |-> PyNone, kickoffs |-> 0, emitted |-> <<>>, raised |-> <<>>]

GenPrefix == "Error en la generacion del plugin: "
OllamaPrefix == "Error conectando con Ollama: "
NoneTypeError == "TypeError: argument 2 has unexpected type 'NoneType'"

\* GenStep with the bug of a worker that writes to the console itself
GenStep_direct(g, next, sigs) ==
    /\ gens' = [gens EXCEPT ![g] = [next EXCEPT !.emitted = @ \o sigs]]
    /\ events' = events \o [i \in 1..Len(sigs) |->
                               Signal("PluginGenerator", sigs[i][1], g, sigs[i][2])]
    /\ output_console' = "progress"
    /\ UNCHANGED <<envVars, closed, text_input, buttonVars, status_bar, message_box,
                   generated_plugins, audio_recorder, plugin_generator,
                   gen_count, recVars, pkgVars, rec_run>>

\* the worker g emits the signals sigs (each <<name, args>>) and moves on
GenStep(g, next, sigs) ==
    /\ gens' = [gens EXCEPT ![g] =
                   [next EXCEPT !.emitted = @ \o sigs]]
    /\ events' = events \o [i \in 1..Len(sigs) |->
                               Signal("PluginGenerator", sigs[i][1], g, sigs[i][2])]
    /\ UNCHANGED <<envVars, closed, uiVars, gen_count, recVars, pkgVars, rec_run>>

\* GenRaise with the bug of a run that goes on after reporting the failure
GenRaise_continue(g, before, prefix, msg) ==
    GenStep(g, [gens[g] EXCEPT !.raised = Append(@, msg)],
            before \o << <<"error", <<prefix, msg>> >> >>)

\* an exception with message msg reaches the handler of run's try block,
\* after the signals before were emitted
GenRaise(g, before, prefix, msg) ==
    GenStep(g, [gens[g] EXCEPT !.pc = "done", !.raised = Append(@, msg)],
            before \o << <<"error", <<prefix, msg>> >> >>)

Progress(m) == <<"progress", <<m>> >>

\* run, from its first line to the third progress signal: the LLM, the
\* three agents, the three tasks and the crew are built, and building any
\* of them may raise
GenSetup(g) ==
    /\ gens[g].pc = "init"
    /\ LET w == gens[g]
           p1 == Progress("Inicializando sistema multiagente...")
           p2 == Progress("Creando equipo de agentes...")
           p3 == Progress("Ejecutando generacion del plugin...")
       IN IF variant = "mejorado" /\ ~CREWAI_AVAILABLE
          THEN GenStep(g, [w EXCEPT !.pc = "done"],
                       << <<"error", <<"", "CrewAI no esta disponible. Instala crewai.">> >> >>)
          ELSE \E outcome \in {"ok", "LLM", "Agent/Task", "Crew"} :
                  IF outcome = "ok"
                  THEN GenStep(g, [w EXCEPT
                                      !.pc = "kickoff",
                                      !.crew = crew_tasks(variant, w.user_request,
                                                          w.plugin_config)],
                               <<p1, p2, p3>>)
                  ELSE IF outcome = "LLM"
                  THEN GenRaise(g, <<p1>>,
                                IF variant = "mejorado" THEN OllamaPrefix ELSE GenPrefix,
                                "LLM")
                  ELSE IF outcome = "Agent/Task"
                  THEN GenRaise(g, <<p1>>, GenPrefix, "Agent/Task")
                  ELSE GenRaise(g, <<p1, p2>>, GenPrefix, "Crew")
    /\ UNCHANGED fs

\* crew.kickoff(), one task at a time
GenKickoff(g) ==
    /\ gens[g].pc = "kickoff"
    /\ LET w == gens[g]
           i == Len(w.tasks_output) + 1
           first == IF i = 1 THEN 1 ELSE 0
       IN \/ \E raw \in ModelTexts(w.crew[i].agent) :
               LET outputs == Append(w.tasks_output,
                                     execute_task(w.crew[i], w.tasks_output, raw))
               IN IF i < Len(w.crew)
                  THEN GenStep(g, [w EXCEPT !.tasks_output = outputs,
                                            !.kickoffs = @ + first], <<>>)
                  ELSE GenStep(g, [w EXCEPT
                                      !.tasks_output = outputs,
                                      !.kickoffs = @ + first,
                                      !.result = crew_output(outputs),
                                      !.pc = IF variant = "mejorado"
                                             THEN "package" ELSE "emit"], <<>>)
          \/ GenRaise(g, <<>>, GenPrefix, "kickoff")
    /\ UNCHANGED fs

\* zip_path = self.create_plugin_package(str(result))
GenPackage(g) ==
    /\ gens[g].pc = "package"
    /\ \E now \in Timestamps, fault \in RunFaults :
          LET r == create_plugin_package(fs, str(gens[g].result), now, linesep, fault)
          IN /\ fs' = r.fs
             /\ GenStep(g, [gens[g] EXCEPT !.pc = "emit", !.zip_path = r.ret], <<>>)

\* GenEmit with the bug of a failure after finished was emitted, inside the
\* try block of run
GenEmit_then_error(g) ==
    /\ gens[g].pc = "emit"
    /\ GenStep(g, [gens[g] EXCEPT !.pc = "done"],
               << <<"finished", <<str(gens[g].result)>> >>,
                  <<"error", <<GenPrefix, "late">> >> >>)
    /\ UNCHANGED fs

\* self.finished.emit(...): finished is pyqtSignal(str) in main_app.py and
\* pyqtSignal(str, str) in main_app_mejorado.py.  Whether None passes for
\* a str argument is the Qt binding's choice: it is converted to the empty
\* string (none_as_str), or emit raises TypeError inside run's try block.
GenEmit(g) ==
    /\ gens[g].pc = "emit"
    /\ LET w == gens[g]
           done == [w EXCEPT !.pc = "done"]
       IN IF variant = "base"
          THEN GenStep(g, done, << <<"finished", <<str(w.result)>> >> >>)
          ELSE IF w.zip_path.type = "str"
          THEN GenStep(g, done, << <<"finished", <<str(w.result), w.zip_path>> >> >>)
          ELSE \E none_as_str \in BOOLEAN :
                  IF none_as_str
                  THEN GenStep(g, done,
                               << <<"finished", <<str(w.result), PyStr(<<>>)>> >> >>)
                  ELSE GenRaise(g, <<>>, GenPrefix, NoneTypeError)
    /\ UNCHANGED fs

\* QThread.isRunning(): run has neither returned nor been terminated
isRunning(w) == w.pc \notin {"done", "terminated"}

(***************************************************************************)
(* QGISPluginGenerator: the main window.  Its methods run on the UI        *)
(* thread, one at a time: a click on an enabled button, an edit, or the    *)
(* slot of the signal at the head of the queue.                            *)
(***************************************************************************)
\* show_error(message): a line on the console and a modal error dialog,
\* before the method leaves status on the status bar
show_error(message, status) ==
    display("error", status, Dialog("critical", <<message>>))

\* the objects that stay alive when a reference is rebound: a QThread that
\* still runs goes on running, whether referenced or not
StillRunning(objs) == [i \in {j \in DOMAIN objs : isRunning(objs[j])} |-> objs[i]]

\* ConfigurationWidget.get_config(): the configuration tab is left as it
\* is built; main_app.py has no configuration
get_config == IF variant = "mejorado" THEN "Mi Plugin Personalizado 1.0.0" ELSE "none"

\* the user edits the input field
TypeText(t) ==
    /\ Alive
    /\ text_input' = t
    /\ display("", "", NoDialog)
    /\ UNCHANGED <<envVars, closed, buttonVars, generated_plugins,
                   audio_recorder, plugin_generator, genVars, recVars, events,
                   fs, pkgVars, rec_run>>

\* the 'description too short' question, with the button the user pressed
ShortQuestion(reply) ==
    [kind |-> "question", text |-> <<"Descripcion corta">>, reply |-> reply]

\* too_short with the bug of never asking
too_short_never(user_request) == FALSE

\* if len(user_request) < 20, which only main_app_mejorado.py tests
too_short(user_request) ==
    variant = "mejorado" /\ Len(user_request) < MinRequestLen

\* start_generation with the bug of leaving the generate button enabled
start_generation_enabled(user_request) ==
    LET g == gen_count + 1 IN
    /\ generate_enabled' = TRUE
    /\ record_enabled' = FALSE
    /\ save_enabled' = FALSE
    /\ progress_visible' = TRUE
    /\ plugin_generator' = g
    /\ gens' = Put(StillRunning(gens), g, NewGenerator(user_request, get_config))
    /\ gen_count' = g

\* the body of generate_plugin once the request is accepted
start_generation(user_request) ==
    LET g == gen_count + 1 IN
    /\ generate_enabled' = FALSE
    /\ record_enabled' = FALSE
    /\ save_enabled' = FALSE
    /\ progress_visible' = TRUE
    /\ plugin_generator' = g
    /\ gens' = Put(StillRunning(gens), g, NewGenerator(user_request, get_config))
    /\ gen_count' = g

\* a click on the generate button
generate_plugin ==
    /\ Alive /\ generate_enabled
    /\ gen_count + rec_count < MaxThreads
    /\ LET user_request == strip(text_input)
           asked == too_short(user_request)
       IN IF variant = "mejorado" /\ ~CREWAI_AVAILABLE
          THEN /\ show_error("CrewAI no esta disponible", "")
               /\ UNCHANGED <<buttonVars, plugin_generator, genVars>>
          ELSE IF user_request = <<>>
          THEN /\ show_error("Por favor, ingresa una descripcion", "")
               /\ UNCHANGED <<buttonVars, plugin_generator, genVars>>
          ELSE \E reply \in (IF asked THEN {"Yes", "No"} ELSE {"Yes"}) :
                  IF reply = "No"
                  THEN /\ display("", "", ShortQuestion("No"))
                       /\ UNCHANGED <<buttonVars, plugin_generator, genVars>>
                  ELSE /\ start_generation(user_request)
                       /\ display("request", "Generando plugin...",
                                  IF asked THEN ShortQuestion("Yes") ELSE NoDialog)
                       /\ UNCHANGED record_text
    /\ UNCHANGED <<envVars, closed, text_input, generated_plugins,
                   audio_recorder, recVars, events, fs, pkgVars, rec_run>>

\* the signal at the head of the queue
Pending(cls, sig) ==
    /\ Alive
    /\ events # <<>>
    /\ Head(events).cls = cls
    /\ Head(events).sig = sig

on_generation_progress ==
    /\ Pending("PluginGenerator", "progress")
    /\ events' = Tail(events)
    /\ display("progress", Head(events).args[1], NoDialog)
    /\ UNCHANGED <<envVars, closed, text_input, buttonVars, generated_plugins,
                   audio_recorder, plugin_generator, genVars, recVars, fs, pkgVars, rec_run>>

\* plugin_info, the entry of the history.  Its timestamp, request and
\* config are shown in the history tab and read by nothing else; the entry
\* is kept by its zip_path.
plugin_info(zip_path) == [zip_path |-> zip_path]

on_generation_finished ==
    /\ Pending("PluginGenerator", "finished")
    /\ events' = Tail(events)
    /\ generate_enabled' = TRUE
    /\ progress_visible' = FALSE
    /\ IF variant = "base"
       THEN /\ record_enabled' = TRUE
            /\ display("result", "",
                       Dialog("information", <<"Plugin generado exitosamente">>))
            /\ UNCHANGED <<save_enabled, generated_plugins>>
       ELSE LET zip_path == Head(events).args[2] IN
            /\ record_enabled' = AUDIO_AVAILABLE
            /\ save_enabled' = TRUE
            /\ generated_plugins' =
                   Append(generated_plugins, plugin_info(zip_path))
            /\ display("result", "Plugin generado exitosamente",
                       Dialog("information",
                              IF Truthy(zip_path) THEN zip_path.s
                              ELSE <<"No disponible">>))
    /\ UNCHANGED <<envVars, closed, text_input, record_text, audio_recorder,
                   plugin_generator, genVars, recVars, fs, pkgVars, rec_run>>

\* on_generation_error with the bug of leaving the interface as it is
on_generation_error_locked ==
    /\ Pending("PluginGenerator", "error")
    /\ events' = Tail(events)
    /\ show_error(Head(events).args[2], "Error en la generacion")
    /\ UNCHANGED <<envVars, closed, text_input, buttonVars, generated_plugins,
                   audio_recorder, plugin_generator, genVars,
                   recVars, fs, pkgVars, rec_run>>

on_generation_error ==
    /\ Pending("PluginGenerator", "error")
    /\ events' = Tail(events)
    /\ generate_enabled' = TRUE
    /\ record_enabled' = IF variant = "base" THEN TRUE ELSE AUDIO_AVAILABLE
    /\ progress_visible' = FALSE
    /\ show_error(Head(events).args[2], "Error en la generacion")
    /\ UNCHANGED <<envVars, closed, text_input, save_enabled, record_text, generated_plugins,
                   audio_recorder, plugin_generator, genVars,
                   recVars, fs, pkgVars, rec_run>>

\* clear_all with the bug of resetting the buttons as well
clear_all_resetting ==
    /\ Alive
    /\ text_input' = <<>>
    /\ save_enabled' = FALSE
    /\ generate_enabled' = TRUE
    /\ record_enabled' = TRUE
    /\ display(IF variant = "mejorado" THEN "welcome" ELSE "cleared",
               "Interfaz limpiada", NoDialog)
    /\ UNCHANGED <<envVars, closed, progress_visible,
                   record_text, generated_plugins, audio_recorder,
                   plugin_generator, genVars, recVars, events, fs, pkgVars, rec_run>>

\* a click on the clear button
clear_all ==
    /\ Alive
    /\ text_input' = <<>>
    /\ save_enabled' = FALSE
    /\ display(IF variant = "mejorado" THEN "welcome" ELSE "cleared",
               "Interfaz limpiada", NoDialog)
    /\ UNCHANGED <<envVars, closed, record_enabled, generate_enabled, progress_visible,
                   record_text, generated_plugins, audio_recorder,
                   plugin_generator, genVars, recVars, events, fs, pkgVars, rec_run>>

\* a click on the clear-history button (main_app_mejorado.py)
clear_history ==
    /\ Alive /\ variant = "mejorado"
    /\ generated_plugins' = <<>>
    /\ display("", "Historial limpiado", NoDialog)
    /\ UNCHANGED <<envVars, closed, text_input, buttonVars,
                   audio_recorder, plugin_generator, genVars, recVars, events,
                   fs, pkgVars, rec_run>>

\* a click on the save button (main_app_mejorado.py): the console is never
\* empty, so the file dialog opens; the user cancels, or the file is
\* written, or writing it raises
save_result ==
    /\ Alive /\ variant = "mejorado" /\ save_enabled
    /\ \E outcome \in {"cancel", "saved", "failed"} :
          IF outcome = "cancel" THEN display("", "", NoDialog)
          ELSE IF outcome = "saved"
          THEN display("saved", "Resultado guardado", NoDialog)
          ELSE show_error("Error al guardar archivo", "")
    /\ UNCHANGED <<envVars, closed, text_input, buttonVars, generated_plugins,
                   audio_recorder, plugin_generator, genVars, recVars, events,
                   fs, pkgVars, rec_run>>

(***************************************************************************)
(* AudioRecorder: the worker thread of one recording.                      *)
(***************************************************************************)
NewRecorder == [pc |-> "init", recording |-> TRUE]

\* the recorder r emits the signals sigs (each <<name, args>>) and moves on
RecStep(r, next, sigs) ==
    /\ recs' = [recs EXCEPT ![r] = next]
    /\ events' = events \o [i \in 1..Len(sigs) |->
                               Signal("AudioRecorder", sigs[i][1], r, sigs[i][2])]
    /\ UNCHANGED <<envVars, closed, uiVars, genVars, rec_count, fs, pkgVars, rec_run>>

\* an exception with message msg reaches the handler of run's outer try;
\* after the handler and the finally block, run returns
RecRaise(r, msg) ==
    RecStep(r, [recs[r] EXCEPT !.pc = "done"], << <<"error", <<"", msg>> >> >>)

\* run, up to the loop: self.p_audio = pyaudio.PyAudio() and
\* self.stream = self.p_audio.open(...), either of which may raise
RecOpen(r) ==
    /\ recs[r].pc = "init"
    /\ IF variant = "mejorado" /\ ~AUDIO_AVAILABLE
       THEN RecStep(r, [recs[r] EXCEPT !.pc = "done"],
                    << <<"error", <<"", "Audio no disponible">> >> >>)
       ELSE \/ RecStep(r, [recs[r] EXCEPT !.pc = "loop"], <<>>)
            \/ RecRaise(r, "open")

\* one turn of  while self.recording: data = self.stream.read(chunk)
RecRead(r) ==
    /\ recs[r].pc = "loop"
    /\ recs[r].recording
    /\ \/ RecStep(r, recs[r], <<>>)
       \/ RecRaise(r, "read")

\* the loop ends: the stream is closed and the recording is written to a
\* temporary .wav file, which may raise
RecSave(r) ==
    /\ recs[r].pc = "loop"
    /\ ~recs[r].recording
    /\ \/ RecStep(r, [recs[r] EXCEPT !.pc = "transcribe"], <<>>)
       \/ RecRaise(r, "wave")

\* Whisper transcribes (or raises), the file is unlinked (or unlink raises,
\* into the outer handler), and run returns
RecTranscribe(r) ==
    /\ recs[r].pc = "transcribe"
    /\ \E whisper_ok, unlink_ok \in BOOLEAN :
          LET second == IF unlink_ok THEN <<>>
                        ELSE << <<"error", <<"", "unlink">> >> >>
              done == [recs[r] EXCEPT !.pc = "done"]
          IN IF whisper_ok
             THEN \E text \in Transcripts :
                     RecStep(r, done, << <<"finished", <<text>> >> >> \o second)
             ELSE RecStep(r, done,
                          << <<"error", <<"Error en transcripcion: ", "whisper">> >> >>
                          \o second)

(***************************************************************************)
(* The main window's recording methods.                                    *)
(***************************************************************************)
\* start_recording(): a new AudioRecorder replaces the referenced one
start_recording ==
    LET r == rec_count + 1 IN
    /\ audio_recorder' = r
    /\ record_text' = "Detener Grabacion"
    /\ display("recording", "Grabando audio...", NoDialog)
    /\ recs' = Put(StillRunning(recs), r, NewRecorder)
    /\ rec_count' = r

\* stop_recording()
stop_recording ==
    IF audio_recorder # 0 /\ recs[audio_recorder].recording
    THEN /\ display("stopping", "Transcribiendo audio...", NoDialog)
         /\ recs' = [recs EXCEPT ![audio_recorder].recording = FALSE]
    ELSE /\ display("", "", NoDialog)
         /\ UNCHANGED recs

\* the test of toggle_recording
must_start ==
    \/ audio_recorder = 0
    \/ ~(isRunning(recs[audio_recorder]) /\ recs[audio_recorder].recording)

\* a click on the record button
toggle_recording ==
    /\ Alive /\ record_enabled
    /\ IF variant = "mejorado" /\ ~AUDIO_AVAILABLE
       THEN /\ show_error("Funcionalidad de audio no disponible", "")
            /\ UNCHANGED <<audio_recorder, record_text, recVars>>
       ELSE IF must_start
       THEN /\ gen_count + rec_count < MaxThreads
            /\ start_recording
       ELSE /\ stop_recording
            /\ UNCHANGED <<audio_recorder, record_text, rec_count>>
    /\ UNCHANGED <<envVars, closed, text_input, record_enabled, generate_enabled,
                   save_enabled, progress_visible, generated_plugins,
                   plugin_generator, genVars, events, fs, pkgVars, rec_run>>

\* on_transcription_finished with the bug of storing the stripped text
on_transcription_finished_stripped ==
    /\ Pending("AudioRecorder", "finished")
    /\ events' = Tail(events)
    /\ record_text' = "Grabar Voz"
    /\ LET text == Head(events).args[1] IN
       IF strip(text) # <<>>
       THEN /\ text_input' = strip(text)
            /\ display("transcription", "Transcripcion completada", NoDialog)
       ELSE /\ display("no_text", "No se detecto texto", NoDialog)
            /\ UNCHANGED text_input
    /\ UNCHANGED <<envVars, closed, record_enabled, generate_enabled, save_enabled,
                   progress_visible, generated_plugins,
                   audio_recorder, plugin_generator, genVars, recVars, fs, pkgVars, rec_run>>

on_transcription_finished ==
    /\ Pending("AudioRecorder", "finished")
    /\ events' = Tail(events)
    /\ record_text' = "Grabar Voz"
    /\ LET text == Head(events).args[1] IN
       IF strip(text) # <<>>
       THEN /\ text_input' = text
            /\ display("transcription", "Transcripcion completada", NoDialog)
       ELSE /\ display("no_text", "No se detecto texto", NoDialog)
            /\ UNCHANGED text_input
    /\ UNCHANGED <<envVars, closed, record_enabled, generate_enabled, save_enabled,
                   progress_visible, generated_plugins,
                   audio_recorder, plugin_generator, genVars, recVars, fs, pkgVars, rec_run>>

on_transcription_error ==
    /\ Pending("AudioRecorder", "error")
    /\ events' = Tail(events)
    /\ record_text' = "Grabar Voz"
    /\ show_error(Head(events).args[2], "Error en transcripcion")
    /\ UNCHANGED <<envVars, closed, text_input, record_enabled, generate_enabled,
                   save_enabled, progress_visible, generated_plugins,
                   audio_recorder, plugin_generator, genVars,
                   recVars, fs, pkgVars, rec_run>>

\* closeEvent(event): a recording under way is told to stop; with a
\* generation in progress the user is asked, and on Yes the generator is
\* terminated; unless the user said No the event is accepted, the window
\* closes and app.exec_() returns
CloseQuestion == Dialog("question", <<"Cerrar aplicacion">>)

closeEvent ==
    /\ Alive
    /\ recs' = IF audio_recorder # 0 /\ recs[audio_recorder].recording
               THEN [recs EXCEPT ![audio_recorder].recording = FALSE]
               ELSE recs
    /\ IF plugin_generator # 0 /\ isRunning(gens[plugin_generator])
       THEN \E reply \in {"Yes", "No"} :
               /\ display("", "", CloseQuestion)
               /\ IF reply = "Yes"
                  THEN /\ gens' = [gens EXCEPT ![plugin_generator].pc = "terminated"]
                       /\ closed' = TRUE
                  ELSE UNCHANGED <<gens, closed>>
       ELSE /\ closed' = TRUE
            /\ UNCHANGED <<gens, output_console, status_bar, message_box>>
    /\ UNCHANGED <<envVars, text_input, buttonVars, generated_plugins,
                   audio_recorder, plugin_generator, gen_count, rec_count,
                   events, fs, pkgVars, rec_run>>

(***************************************************************************)
(* The application.                                                        *)
(***************************************************************************)
\* threads run as long as the process does
GeneratorStep ==
    /\ ~closed
    /\ \E g \in DOMAIN gens :
        \/ GenSetup(g)
        \/ GenKickoff(g)
        \/ GenPackage(g)
        \/ GenEmit(g)

RecorderStep ==
    /\ ~closed
    /\ \E r \in DOMAIN recs :
        \/ RecOpen(r)
        \/ RecRead(r)
        \/ RecSave(r)
        \/ RecTranscribe(r)

UserStep ==
    \/ \E t \in TypedTexts : TypeText(t)
    \/ generate_plugin
    \/ toggle_recording
    \/ clear_all
    \/ clear_history
    \/ save_result
    \/ closeEvent

SlotStep ==
    \/ on_generation_progress
    \/ on_generation_finished
    \/ on_generation_error
    \/ on_transcription_finished
    \/ on_transcription_error

Next == UserStep \/ SlotStep \/ GeneratorStep \/ RecorderStep

Spec == Init /\ [][Next]_vars

\* The same, with the scheduling the claims about progress rest on: a
\* generator thread that can take a step takes one (every call it makes
\* returns or raises), and the event loop delivers the signal at the head
\* of its queue.
SpecLive ==
    /\ Spec
    /\ WF_vars(GeneratorStep)
    /\ WF_vars(SlotStep)

(***************************************************************************)
(* create_plugin_package on its own: called with any result text, at any   *)
(* time, under either line separator, with any of its steps failing, on    *)
(* the file system that earlier calls left.                                *)
(***************************************************************************)
\* os.linesep on POSIX and on Windows
LineSeps == { <<"\n">>, <<"\r", "\n">> }

ResultTexts ==
    { <<>>, <<"x">>, <<"a", "\n", "b">>, <<"\r", "\n">>, <<"<surrogate>">> }

InitPackage ==
    /\ variant = "mejorado"
    /\ audio_libs = TRUE
    /\ crewai_libs = TRUE
    /\ linesep \in LineSeps
    /\ InitWindow
    /\ rec_run = [pc |-> "idle"]

\* pkg_call: the arguments of the call made last and the number of calls;
\* pkg_ret: what it returned and the temporary directory it created
PackageCall ==
    /\ pkg_call.n < MaxCalls
    /\ \E result_text \in ResultTexts, now \in Timestamps, fault \in PackageFaults :
          LET r == create_plugin_package(fs, result_text, now, linesep, fault)
          IN /\ pkg_call' = [n |-> pkg_call.n + 1, result_text |-> result_text,
                             now |-> now, fault |-> fault, fs |-> fs]
             /\ pkg_ret' = [ret |-> r.ret, temp_dir |-> r.temp_dir]
             /\ fs' = r.fs
    /\ UNCHANGED <<envVars, closed, uiVars, genVars, recVars, events, rec_run>>

NextPackage == PackageCall

SpecPackage == InitPackage /\ [][NextPackage]_vars

(***************************************************************************)
(* AudioRecorder.run on its own, statement by statement: the PyAudio       *)
(* instance, the input stream and the temporary .wav file of one           *)
(* recording, with the window's stop_recording() as the only other step.   *)
(* rec_run.p_audio is "none", "live" or "terminated"; rec_run.stream is    *)
(* "none", "active", "stopped" or "closed"; rec_run.temp_file is "none",   *)
(* "exists" or "deleted".  stops, closes and terminates count the calls of *)
(* stream.stop_stream(), stream.close() and p_audio.terminate();           *)
(* after_close counts the calls made on the stream once it was closed.     *)
(* audio_data is the number of chunks read; emitted lists the signals,     *)
(* each <<name, message>>; escaped tells that an exception left run.       *)
(***************************************************************************)
\* AudioRecorder() followed by start_recording(): recording is set and the
\* thread started
NewRun ==
    [pc |-> "start", recording |-> TRUE, p_audio |-> "none", stream |-> "none",
     audio_data |-> 0, temp_file |-> "none", stops |-> 0, closes |-> 0, terminates |-> 0,
     after_close |-> 0, emitted |-> <<>>, escaped |-> FALSE]

InitRecorder ==
    /\ variant \in {"base", "mejorado"}
    /\ audio_libs \in (IF variant = "base" THEN {TRUE} ELSE BOOLEAN)
    /\ crewai_libs = TRUE
    /\ linesep = <<"\n">>
    /\ InitWindow
    /\ rec_run = NewRun

RunStep(next) ==
    /\ rec_run' = next
    /\ UNCHANGED <<envVars, closed, uiVars, genVars, recVars, events, fs, pkgVars>>

\* an exception inside the outer try: its handler emits error, then the
\* finally block runs
raise(w, msg) ==
    [w EXCEPT !.emitted = Append(@, <<"error", msg>>), !.pc = "finally"]

\* if not AUDIO_AVAILABLE (main_app_mejorado.py), then
\* self.p_audio = pyaudio.PyAudio()
run_PyAudio ==
    /\ rec_run.pc = "start"
    /\ IF variant = "mejorado" /\ ~AUDIO_AVAILABLE
       THEN RunStep([rec_run EXCEPT
                        !.emitted = Append(@, <<"error", "Audio no disponible">>),
                        !.pc = "done"])
       ELSE \/ RunStep([rec_run EXCEPT !.p_audio = "live", !.pc = "open"])
            \/ RunStep(raise(rec_run, "PyAudio"))

\* self.stream = self.p_audio.open(...)
run_open ==
    /\ rec_run.pc = "open"
    /\ \/ RunStep([rec_run EXCEPT !.stream = "active", !.pc = "loop"])
       \/ RunStep(raise(rec_run, "open"))

\* one turn of  while self.recording: data = self.stream.read(chunk);
\* self.audio_data.append(data)
run_read ==
    /\ rec_run.pc = "loop"
    /\ rec_run.recording
    /\ \/ /\ rec_run.audio_data < MaxChunks
          /\ RunStep([rec_run EXCEPT !.audio_data = @ + 1])
       \/ RunStep(raise(rec_run, "read"))

\* the window's stop_recording(): self.recording = False
run_stop_recording ==
    /\ rec_run.pc # "done"
    /\ rec_run.recording
    /\ RunStep([rec_run EXCEPT !.recording = FALSE])

\* self.stream.stop_stream()
run_stop_stream ==
    /\ rec_run.pc = "loop"
    /\ ~rec_run.recording
    /\ \/ RunStep([rec_run EXCEPT !.stream = "stopped", !.stops = @ + 1,
                                  !.pc = "close"])
       \/ RunStep(raise(rec_run, "stop_stream"))

\* self.stream.close()
run_close ==
    /\ rec_run.pc = "close"
    /\ RunStep([rec_run EXCEPT !.stream = "closed", !.closes = @ + 1,
                               !.pc = "terminate"])

\* self.p_audio.terminate()
run_terminate ==
    /\ rec_run.pc = "terminate"
    /\ RunStep([rec_run EXCEPT !.p_audio = "terminated", !.terminates = @ + 1,
                               !.pc = "tempfile"])

\* temp_file = tempfile.NamedTemporaryFile(delete=False, suffix=".wav")
run_tempfile ==
    /\ rec_run.pc = "tempfile"
    /\ \/ RunStep([rec_run EXCEPT !.temp_file = "exists", !.pc = "wave"])
       \/ RunStep(raise(rec_run, "NamedTemporaryFile"))

\* wf = wave.open(temp_file.name, "wb") ... wf.close()
run_wave ==
    /\ rec_run.pc = "wave"
    /\ \/ RunStep([rec_run EXCEPT !.pc = "transcribe"])
       \/ RunStep(raise(rec_run, "wave"))

\* the inner try: whisper.load_model, model.transcribe and finished.emit,
\* or its handler's error.emit
run_transcribe ==
    /\ rec_run.pc = "transcribe"
    /\ \E sig \in {<<"finished", "text">>, <<"error", "whisper">>} :
          RunStep([rec_run EXCEPT !.emitted = Append(@, sig), !.pc = "unlink"])

\* the inner finally: os.unlink(temp_file.name), which raises where the
\* file cannot be removed (on Windows, while temp_file is still open)
run_unlink ==
    /\ rec_run.pc = "unlink"
    /\ \/ RunStep([rec_run EXCEPT !.temp_file = "deleted", !.pc = "finally"])
       \/ RunStep(raise(rec_run, "unlink"))

\* the outer finally.  self.stream.is_active() on a closed stream is an
\* operation PyAudio refuses: it raises, and the exception leaves run, or
\* a build that answers False goes on to terminate the instance again.
run_finally ==
    /\ rec_run.pc = "finally"
    /\ LET w == rec_run
           terminated(v) ==
               IF v.p_audio # "none"
               THEN [v EXCEPT !.p_audio = "terminated", !.terminates = @ + 1,
                              !.pc = "done"]
               ELSE [v EXCEPT !.pc = "done"]
       IN IF w.stream = "none" THEN RunStep(terminated(w))
          ELSE IF w.stream = "active"
          THEN RunStep(terminated([w EXCEPT !.stream = "closed",
                                            !.stops = @ + 1, !.closes = @ + 1]))
          ELSE IF w.stream = "stopped" THEN RunStep(terminated(w))
          ELSE \E closed_raises \in BOOLEAN :
                  IF closed_raises
                  THEN RunStep([w EXCEPT !.after_close = @ + 1, !.escaped = TRUE,
                                         !.pc = "done"])
                  ELSE RunStep(terminated([w EXCEPT !.after_close = @ + 1]))

NextRecorder ==
    \/ run_PyAudio
    \/ run_open
    \/ run_read
    \/ run_stop_recording
    \/ run_stop_stream
    \/ run_close
    \/ run_terminate
    \/ run_tempfile
    \/ run_wave
    \/ run_transcribe
    \/ run_unlink
    \/ run_finally

SpecRecorder == InitRecorder /\ [][NextRecorder]_vars

(***************************************************************************)
(* Properties.                                                             *)
(***************************************************************************)
\* the signals called name that the worker w has emitted
Sigs(w, name) == SelectSeq(w.emitted, LAMBDA e : e[1] = name)

\* the agents of the stages the worker w has executed, in order
Agents(w) == [i \in 1..Len(w.tasks_output) |-> w.tasks_output[i].agent]

Pipeline == <<"planner_agent", "coder_agent", "reviewer_agent">>

\* the signals of the worker g still queued for the UI thread
Queued(g, names) ==
    {i \in 1..Len(events) : /\ events[i].cls = "PluginGenerator"
                            /\ events[i].from = g
                            /\ events[i].sig \in names}

\* C1 (as amended): in every generation run the stages execute in the order
\* planner, coder, reviewer, each at most once, a stage only after the
\* preceding one produced its output; a run that emits finished executed
\* each of the three exactly once and reports the reviewer's output.
StagesInOrder ==
    \A g \in DOMAIN gens :
        LET w == gens[g]
            n == Len(w.tasks_output)
        IN /\ n <= Len(Pipeline)
           /\ Agents(w) = SubSeq(Pipeline, 1, n)
           /\ w.pc \in {"package", "emit"} => n = Len(Pipeline)
           /\ \A i \in 1..Len(Sigs(w, "finished")) :
                 /\ n = Len(Pipeline)
                 /\ w.tasks_output[n].agent = "reviewer_agent"
                 /\ Sigs(w, "finished")[i][2][1] = w.tasks_output[n].raw

\* a run has emitted finished after its three stages
StagesInOrderWitness ==
    \E g \in DOMAIN gens :
        /\ Len(Sigs(gens[g], "finished")) = 1
        /\ Agents(gens[g]) = Pipeline

\* C1 as stated: every run, once over, has executed each of the three
\* stages exactly once.
EveryRunRanEachStageOnce ==
    \A g \in DOMAIN gens :
        gens[g].pc = "done" => Agents(gens[g]) = Pipeline

\* C2: the planner stage receives the request (in main_app_mejorado.py
\* also the plugin configuration) and no context; the coder stage receives
\* the planner's output and nothing else; the reviewer stage receives the
\* planner's and the coder's outputs.
ContextHandOff ==
    \A g \in DOMAIN gens :
        LET w == gens[g]
            o == w.tasks_output
        IN /\ Len(o) >= 1 =>
                 /\ o[1].agent = "planner_agent"
                 /\ o[1].inputs = IF variant = "mejorado"
                                  THEN <<PyStr(w.user_request), PyStr(<<w.plugin_config>>)>>
                                  ELSE <<PyStr(w.user_request)>>
                 /\ o[1].context = <<>>
           /\ Len(o) >= 2 =>
                 /\ o[2].agent = "coder_agent"
                 /\ o[2].inputs = <<>>
                 /\ o[2].context = <<o[1]>>
           /\ Len(o) >= 3 =>
                 /\ o[3].agent = "reviewer_agent"
                 /\ o[3].inputs = <<>>
                 /\ o[3].context = <<o[1], o[2]>>

\* the reviewer stage of a run of main_app_mejorado.py has executed
ContextHandOffWitness ==
    \E g \in DOMAIN gens :
        /\ variant = "mejorado"
        /\ Len(gens[g].tasks_output) = 3

\* C3 as stated: a run that has emitted finished has written, before, a zip
\* archive that holds the final agent output.
FinishedAfterArchive ==
    \A g \in DOMAIN gens :
        \A i \in 1..Len(Sigs(gens[g], "finished")) :
            \E p \in DOMAIN fs.zips :
                \E k \in 1..Len(fs.zips[p]) :
                    fs.zips[p][k].data =
                        translate_newlines(Sigs(gens[g], "finished")[i][2][1], linesep)

\* what a text-mode file holds once text is written to it
RECURSIVE AsWritten(_, _)
AsWritten(text, sep) ==
    IF Len(text) = 0 THEN <<>>
    ELSE AsWritten(SubSeq(text, 1, Len(text) - 1), sep)
         \o (IF text[Len(text)] = "\n" THEN sep ELSE <<text[Len(text)]>>)

\* the archive a call that returned a path must have left, holding data
Packaged(data) ==
    LET name == "qgis_plugin_" \o ToString(pkg_call.now)
        path == <<"cwd", name \o ".zip">>
    IN /\ pkg_ret.ret.s = path
       /\ path \in DOMAIN fs.zips
       /\ fs.zips[path] = << [arcname |-> <<name, "resultado.txt">>, data |-> data] >>

\* C4 (as amended): a call of create_plugin_package that succeeds returns
\* <cwd>/qgis_plugin_<timestamp>.zip, an archive with the single entry
\* qgis_plugin_<timestamp>/resultado.txt, whose content is result_text with
\* each "\n" written as the platform's line separator and no other change.
PackageContent ==
    pkg_ret.ret.type = "str" =>
        Packaged(AsWritten(pkg_call.result_text, linesep))

\* a call succeeded on a text with a line break where the separator is CRLF
PackageContentWitness ==
    /\ pkg_ret.ret.type = "str"
    /\ linesep = <<"\r", "\n">>
    /\ pkg_call.result_text = <<"a", "\n", "b">>

\* C4 as stated: the entry's content is result_text unchanged.
PackageContentUnchanged ==
    pkg_ret.ret.type = "str" => Packaged(pkg_call.result_text)

\* C5: generate_plugin returns with the worker only started, and a step
\* that changes the presentation state (console, buttons, progress bar,
\* status bar, history) is never a step of a worker: a worker only queues
\* signals.  The one thing a step of the window does to a worker is to
\* terminate it, in closeEvent.
WorkerOffUiThread ==
    [][ /\ gen_count' # gen_count =>
              /\ gens'[gen_count'].pc = "init"
              /\ gens'[gen_count'].emitted = <<>>
              /\ gens'[gen_count'].tasks_output = <<>>
              /\ gens'[gen_count'].kickoffs = 0
        /\ uiVars' # uiVars =>
              /\ \A g \in DOMAIN gens \cap DOMAIN gens' :
                    \/ gens'[g] = gens[g]
                    \/ gens'[g] = [gens[g] EXCEPT !.pc = "terminated"]
              /\ \A r \in DOMAIN recs \cap DOMAIN recs' :
                    recs'[r].pc = recs[r].pc
              /\ Len(events') <= Len(events)
      ]_vars

\* the pipeline is under way and has queued signals while the window still
\* shows what generate_plugin left
WorkerOffUiThreadWitness ==
    \E g \in DOMAIN gens :
        /\ gens[g].pc = "kickoff"
        /\ Len(gens[g].tasks_output) >= 1
        /\ Queued(g, {"progress"}) # {}
        /\ output_console = "request"
        /\ progress_visible

\* C6: at most one PluginGenerator runs at any time, and the generate
\* button stays disabled from the start of a generation until its finished
\* or error handler has run.
OneGeneratorAtATime ==
    /\ Cardinality({g \in DOMAIN gens : isRunning(gens[g])}) <= 1
    /\ \A g \in DOMAIN gens :
          (isRunning(gens[g]) \/ Queued(g, {"finished", "error"}) # {}) =>
              /\ ~generate_enabled
              /\ plugin_generator = g

\* a second generation runs, after the first one's handler
OneGeneratorAtATimeWitness ==
    /\ gen_count = 2
    /\ isRunning(gens[2])

\* C7 as stated: at most one AudioRecorder thread runs at any time, and a
\* recorder whose thread runs is the one the window references.
OneRecorderAtATime ==
    /\ Cardinality({r \in DOMAIN recs : isRunning(recs[r])}) <= 1
    /\ \A r \in DOMAIN recs : isRunning(recs[r]) => audio_recorder = r

\* create_plugin_package returned None to the run of w
PackagingFailed(w) ==
    /\ variant = "mejorado"
    /\ w.pc \in {"emit", "done"}
    /\ w.result # PyNone
    /\ w.zip_path = PyNone

\* C8 (as amended): a run calls kickoff at most once and executes no stage
\* twice, and emits at most one of finished and error.  A failure of the
\* model configuration, of the construction of an agent, a task or the crew,
\* or of the pipeline ends the run with error emitted once, carrying the
\* failure's message, and no finished.  A failure inside
\* create_plugin_package is caught there: the run ends either with finished
\* carrying an empty archive path, or with one error that carries the
\* TypeError of emit, not the failure's message.
CatchAndReport ==
    \A g \in DOMAIN gens :
        LET w == gens[g]
            errors == Sigs(w, "error")
            finisheds == Sigs(w, "finished")
        IN /\ w.kickoffs <= 1
           /\ Len(w.tasks_output) <= Len(Pipeline)
           /\ Len(errors) + Len(finisheds) <= 1
           /\ Len(w.raised) <= 1
           /\ w.raised # <<>> =>
                 /\ w.pc = "done"
                 /\ finisheds = <<>>
                 /\ Len(errors) = 1
                 /\ errors[1][2][2] = w.raised[1]
                 /\ w.emitted[Len(w.emitted)] = errors[1]
           /\ (w.raised # <<>> /\ ~PackagingFailed(w)) =>
                 w.raised[1] \in {"LLM", "Agent/Task", "Crew", "kickoff"}
           /\ (PackagingFailed(w) /\ w.pc = "done") =>
                 \/ /\ w.raised = <<>>
                    /\ finisheds = << <<"finished", <<str(w.result), PyStr(<<>>)>> >> >>
                 \/ w.raised = <<NoneTypeError>>

\* a pipeline failed after the planner stage and the error is queued
CatchAndReportWitness ==
    \E g \in DOMAIN gens :
        /\ gens[g].raised = <<"kickoff">>
        /\ Len(gens[g].tasks_output) = 1
        /\ Queued(g, {"error"}) # {}

\* C8 as stated, for the packaging call: when it fails, the run emits error
\* once, carrying the failure's message, and no finished.
PackagingFailureReported ==
    \A g \in DOMAIN gens :
        LET w == gens[g] IN
        (PackagingFailed(w) /\ w.pc = "done") =>
            /\ Sigs(w, "finished") = <<>>
            /\ Len(Sigs(w, "error")) = 1
            /\ Sigs(w, "error")[1][2][2] \in RunFaults

\* C9 as stated: without the audio libraries the application starts, the
\* record button is disabled and no AudioRecorder records.
AudioOptional ==
    ~audio_libs =>
        /\ Started
        /\ ~record_enabled
        /\ \A r \in DOMAIN recs : recs[r].pc # "loop"

\* C10: the handler of a transcription that is not blank once stripped
\* replaces the input field's content by exactly the transcribed text, and
\* the handler of a blank one leaves the field as it is and shows only the
\* warning; a generation started next takes the field's stripped content as
\* its request.
SpokenRequest ==
    [][ /\ (Pending("AudioRecorder", "finished") /\ events' = Tail(events)) =>
              LET text == Head(events).args[1] IN
              IF strip(text) # <<>>
              THEN text_input' = text
              ELSE /\ text_input' = text_input
                   /\ output_console' = "no_text"
                   /\ message_box' = NoDialog
        /\ gen_count' # gen_count =>
              gens'[gen_count'].user_request = strip(text_input)
      ]_vars

\* a generation runs on the request that a transcription put in the field
SpokenRequestWitness ==
    /\ text_input = <<" ", "v", " ", "v">>
    /\ \E g \in DOMAIN gens : gens[g].user_request = <<"v", " ", "v">>

\* the text is empty or holds whitespace only
Blank(t) == \A i \in 1..Len(t) : t[i] \in Whitespace

\* C11: a click on generate with an input that is empty or whitespace-only
\* reports an error and starts no worker, and leaves the enabled state of
\* the generate, record and save buttons, the progress bar, the
\* plugin_generator reference and the history as they were.
EmptyRequestRejected ==
    [][ (generate_plugin /\ Blank(text_input)) =>
            /\ message_box'.kind = "critical"
            /\ output_console' = "error"
            /\ UNCHANGED <<generate_enabled, record_enabled, save_enabled,
                           progress_visible, plugin_generator,
                           generated_plugins, gens, gen_count>>
      ]_vars

\* the error is on display after a click with a whitespace-only input
EmptyRequestRejectedWitness ==
    /\ text_input = <<" ", "\n">>
    /\ message_box = Dialog("critical", <<"Por favor, ingresa una descripcion">>)
    /\ gen_count = 0

\* C12: in main_app_mejorado.py a click on generate with a request that is
\* not empty and shorter than 20 characters once stripped asks the
\* 'description too short' question and starts a generation exactly when
\* the user answers Yes; on No it starts no worker and changes no button,
\* progress bar or history state.  A request of 20 characters or more
\* starts a generation with no question.
ShortRequestConfirmed ==
    [][ (generate_plugin /\ variant = "mejorado" /\ ~Blank(text_input)) =>
            IF Len(strip(text_input)) < MinRequestLen
            THEN /\ message_box'.kind = "question"
                 /\ (gen_count' # gen_count) <=> (message_box'.reply = "Yes")
                 /\ message_box'.reply = "No" =>
                        UNCHANGED <<buttonVars, generated_plugins, gens,
                                    plugin_generator>>
            ELSE /\ gen_count' = gen_count + 1
                 /\ message_box' = NoDialog
      ]_vars

\* the user declined the question for a request of 19 characters
ShortRequestConfirmedWitness ==
    /\ text_input = <<" ">> \o Repeat("a", MinRequestLen - 1) \o <<"\n">>
    /\ message_box = ShortQuestion("No")
    /\ gen_count = 0

\* a generation is under way: its worker runs, or its finished or error
\* signal waits for its handler
Generating ==
    \E g \in DOMAIN gens :
        isRunning(gens[g]) \/ Queued(g, {"finished", "error"}) # {}

\* C13: from the start of a generation until its finished or error handler
\* runs, the generate and record buttons are disabled and the progress bar
\* is visible, whatever else happens in between; the handler leaves the
\* generate button enabled and the progress bar hidden.
DisabledDuringGeneration ==
    /\ [](Generating =>
             ~generate_enabled /\ ~record_enabled /\ progress_visible)
    /\ [][ (on_generation_finished \/ on_generation_error) =>
               generate_enabled' /\ ~progress_visible' ]_vars

\* a transcription result was handled while a generation was under way
DisabledDuringGenerationWitness ==
    /\ Generating
    /\ output_console \in {"transcription", "no_text"}
    /\ ~generate_enabled /\ ~record_enabled /\ progress_visible

\* C14: after every started generation, provided every call of the worker
\* returns or raises and the window is not closed, the generate button is
\* enabled again and the progress bar hidden, sooner or later, on the
\* success path and on every failure path.
NeverStaysLocked ==
    Generating ~> ((generate_enabled /\ ~progress_visible) \/ closed)

\* a generation failed and the interface is unlocked again
NeverStaysLockedWitness ==
    \E g \in DOMAIN gens :
        /\ gens[g].raised # <<>>
        /\ ~Generating
        /\ generate_enabled /\ ~progress_visible
        /\ ~closed

ProgressMessages ==
    << "Inicializando sistema multiagente...",
       "Creando equipo de agentes...",
       "Ejecutando generacion del plugin..." >>

\* the positions in what w emitted of its finished and error signals
Terminals(w) ==
    {i \in 1..Len(w.emitted) : w.emitted[i][1] \in {"finished", "error"}}

\* C15: a run emits at most one of finished and error, and exactly one
\* once it is over unless it was terminated; nothing is emitted after that
\* signal, so every progress signal precedes it; and the progress messages
\* are the three fixed ones, in their order, from the first on.
OneTerminalSignal ==
    \A g \in DOMAIN gens :
        LET w == gens[g]
            progress == Sigs(w, "progress")
        IN /\ Cardinality(Terminals(w)) <= 1
           /\ Terminals(w) \subseteq {Len(w.emitted)}
           /\ w.pc = "done" => Cardinality(Terminals(w)) = 1
           /\ Cardinality(Terminals(w)) = 1 => w.pc \in {"done", "terminated"}
           /\ Len(progress) <= Len(ProgressMessages)
           /\ \A i \in 1..Len(progress) :
                 progress[i][2] = <<ProgressMessages[i]>>

\* a run is over that emitted the three progress messages and then finished
OneTerminalSignalWitness ==
    \E g \in DOMAIN gens :
        /\ gens[g].pc = "done"
        /\ Len(gens[g].emitted) = 4
        /\ gens[g].emitted[4][1] = "finished"

TempDirRemoved ==
    pkg_ret.temp_dir # <<>> => pkg_ret.temp_dir \notin fs.dirs

\* C18 as stated: when an AudioRecorder run ends, the temporary .wav file
\* it created, if any, is deleted.
TempWavDeleted ==
    rec_run.pc = "done" => rec_run.temp_file # "exists"

\* C19 as stated: a run that opened the audio device has, when it ends,
\* stopped the stream once, closed it once and terminated the PyAudio
\* instance once, and has invoked nothing on the stream after closing it.
StreamReleasedOnce ==
    (rec_run.pc = "done" /\ rec_run.stream # "none") =>
        /\ rec_run.stops = 1
        /\ rec_run.closes = 1
        /\ rec_run.terminates = 1
        /\ rec_run.after_close = 0

====
